---- MODULE Spec2Model ----
(***************************************************************************)
(* Creator/Critic attempt loop of workflow_graph.py: the creator node, the *)
(* critic node, the router and the graph that build_graph compiles, driven *)
(* by an opaque generator (propose) and an opaque evaluator (evaluate).    *)
(***************************************************************************)
EXTENDS Integers, Sequences, FiniteSets, TLC

VARIABLES
    state,          \* the GraphState threaded through the graph nodes
    max_attempts,   \* the budget given to build_graph / _critic_node
    pc,             \* node the compiled graph runs next: creator, critic, END, returned
    proposeLog,     \* one record per creator.propose call: argument and result
    evaluateLog,    \* one record per critic.evaluate call: argument and result
    config,         \* run_workflow's provider, model and critic_mode arguments
    fault,          \* the exception in flight or propagated: none, config, propose, evaluate
    output,         \* what main prints after the run: attempt log and final payload
    creator_attempts \* the attempts list the rule-based Creator object holds

vars == <<state, max_attempts, pc, proposeLog, evaluateLog, config, fault, output,
          creator_attempts>>

----------------------------------------------------------------------------
(* Bounds *)

MaxBudget == 3          \* largest max_attempts explored
MaxNegBudget == 1       \* max_attempts ranges down to -MaxNegBudget
MaxCalls == 3           \* direct node invocations: cap on propose / evaluate calls
MaxCaptionWords == 3    \* longest caption, in words, given to the rule-based critic alone

Budgets == (0 - MaxNegBudget)..MaxBudget

----------------------------------------------------------------------------
(* Data *)

\* Optional[str]: None is the empty sequence, a string s is <<s>>
None == <<>>
Some(s) == <<s>>

\* captions an opaque generator may return
Captions == {"bad caption", "this one is ok", "Prod rocks ⚡"}

\* Evaluation values an opaque evaluator may return (agents.Evaluation)
Evaluation(ok, fb, md) == [approved |-> ok, feedback |-> fb, metadata |-> md]

ApprovedEvaluations ==
    { Evaluation(TRUE, "Approved", [status |-> "approved"]),
      Evaluation(TRUE, "Approved",
                 [status |-> "approved", length |-> "14", word_count |-> "3",
                  brand_safety_check |-> "passed"]) }

RejectedEvaluations ==
    { Evaluation(FALSE, "Needs keyword", [status |-> "rejected"]),
      Evaluation(FALSE, "Always reject",
                 [status |-> "pending", exhausted |-> "false", length |-> "11"]) }

Evaluations == ApprovedEvaluations \cup RejectedEvaluations

\* agents.Attempt
Attempt(c, ev) == [caption |-> c, evaluation |-> ev]

\* a merge in which the first mapping wins a shared key
DictMerge_first_wins(a, b) ==
    [k \in (DOMAIN a) \cup (DOMAIN b) |-> IF k \in DOMAIN a THEN a[k] ELSE b[k]]

\* {**a, **b}: the keys of both, b winning
DictMerge(a, b) ==
    [k \in (DOMAIN a) \cup (DOMAIN b) |-> IF k \in DOMAIN b THEN b[k] ELSE a[k]]

\* the f-string of the exhaustion branch
ExhaustedFeedback(n, fb) ==
    "Attempt budget exhausted after " \o ToString(n) \o " tries. "
        \o "Last feedback: " \o fb

----------------------------------------------------------------------------
(* Python string operations used by the critics and the payload builder *)

Char(str, i) == SubSeq(str, i, i)

UpperLetters == "ABCDEFGHIJKLMNOPQRSTUVWXYZ"
LowerLetters == "abcdefghijklmnopqrstuvwxyz"

\* str.lower() on one character
lower_char(c) ==
    IF \E i \in 1..Len(UpperLetters) : Char(UpperLetters, i) = c
    THEN Char(LowerLetters, CHOOSE i \in 1..Len(UpperLetters) : Char(UpperLetters, i) = c)
    ELSE c

RECURSIVE lower(_)
\* str.lower()
lower(str) ==
    IF str = "" THEN "" ELSE lower_char(Char(str, 1)) \o lower(SubSeq(str, 2, Len(str)))

\* sub in str
str_in(sub, str) ==
    \E i \in 1..(Len(str) - Len(sub) + 1) : SubSeq(str, i, i + Len(sub) - 1) = sub

is_space(c) == c \in {" ", "\n", "\t"}

RECURSIVE lstrip(_)
lstrip(str) ==
    IF str # "" /\ is_space(Char(str, 1)) THEN lstrip(SubSeq(str, 2, Len(str))) ELSE str

RECURSIVE rstrip(_)
rstrip(str) ==
    IF str # "" /\ is_space(Char(str, Len(str)))
    THEN rstrip(SubSeq(str, 1, Len(str) - 1))
    ELSE str

\* str.strip()
strip(str) == rstrip(lstrip(str))

RECURSIVE first_word_len(_)
\* length of the run of non-space characters at the start of str
first_word_len(str) ==
    IF str = "" \/ is_space(Char(str, 1))
    THEN 0
    ELSE 1 + first_word_len(SubSeq(str, 2, Len(str)))

RECURSIVE split(_)
\* str.split(): the maximal runs of non-space characters, in order
split(str) ==
    LET rest == lstrip(str)
        n == first_word_len(rest)
    IN  IF rest = ""
        THEN <<>>
        ELSE <<SubSeq(rest, 1, n)>> \o split(SubSeq(rest, n + 1, Len(rest)))

RECURSIVE join(_, _)
\* sep.join(words)
join(sep, words) ==
    IF words = <<>> THEN ""
    ELSE IF Len(words) = 1 THEN words[1]
    ELSE words[1] \o sep \o join(sep, Tail(words))

RECURSIVE first_line(_)
\* str.splitlines()[0] of a non-empty string
first_line(str) ==
    IF str = "" \/ Char(str, 1) = "\n"
    THEN ""
    ELSE Char(str, 1) \o first_line(SubSeq(str, 2, Len(str)))

RECURSIVE replace(_, _, _)
\* str.replace(old, new), old non-empty
replace(str, old, new) ==
    IF Len(str) < Len(old) THEN str
    ELSE IF SubSeq(str, 1, Len(old)) = old
         THEN new \o replace(SubSeq(str, Len(old) + 1, Len(str)), old, new)
         ELSE Char(str, 1) \o replace(SubSeq(str, 2, Len(str)), old, new)

Digits == "0123456789"

RECURSIVE parse_int(_)
\* int(str) of a string of decimal digits
parse_int(str) ==
    IF str = "" THEN 0
    ELSE 10 * parse_int(SubSeq(str, 1, Len(str) - 1))
         + ((CHOOSE i \in 1..10 : Char(Digits, i) = Char(str, Len(str))) - 1)

\* dict.get(key, default)
dict_get(d, key, default) == IF key \in DOMAIN d THEN d[key] ELSE default

----------------------------------------------------------------------------
(* adcp_payload.py *)

\* a character of the pattern's ranges (U+2600-U+27BF, U+1F300-U+1FAFF)
EmojiChars == {"⚡"}

\* contains_emoji: some character of text lies in the emoji ranges
contains_emoji(text) ==
    \E i \in 1..Len(text) : Char(text, i) \in EmojiChars

\* a payload builder that always recomputes the counts from the caption
payload_metadata_recomputes(caption, meta) ==
    [length |-> Len(caption),
     word_count |-> Len(split(caption)),
     sentiment |-> "energetic",
     brand_safety_check |-> dict_get(meta, "brand_safety_check", "unknown")]

\* build_adcp_payload: the metadata block
payload_metadata(caption, meta) ==
    [length |-> IF "length" \in DOMAIN meta
                THEN parse_int(meta["length"])
                ELSE Len(caption),
     word_count |-> IF "word_count" \in DOMAIN meta
                    THEN parse_int(meta["word_count"])
                    ELSE Len(split(caption)),
     sentiment |-> "energetic",
     brand_safety_check |-> dict_get(meta, "brand_safety_check", "unknown")]

\* build_adcp_payload
build_adcp_payload(product, audience, caption, meta) ==
    [adcp_version |-> "1.0",
     task |-> "creative_generation",
     payload |-> [target_audience |-> audience,
                  creative_assets |-> << [type |-> "text_ad", content |-> caption] >>,
                  product |-> product],
     metadata |-> payload_metadata(caption, meta)]

----------------------------------------------------------------------------
(* adcp_workflow.py *)

\* a log entry that reports the position counted from zero
attempt_entry_zero_based(idx, attempt) ==
    [sequence |-> idx - 1,
     type |-> "text_ad",
     content |-> attempt.caption,
     status |-> dict_get(attempt.evaluation.metadata, "status", "unknown"),
     feedback |-> attempt.evaluation.feedback]

\* _attempts_as_adcp: the entry for the idx-th attempt (enumerate start=1)
attempt_entry(idx, attempt) ==
    [sequence |-> idx,
     type |-> "text_ad",
     content |-> attempt.caption,
     status |-> dict_get(attempt.evaluation.metadata, "status", "unknown"),
     feedback |-> attempt.evaluation.feedback]

\* _attempts_as_adcp
attempts_as_adcp(attempts) ==
    [adcp_version |-> "1.0",
     task |-> "creative_generation_log",
     attempts |-> [idx \in 1..Len(attempts) |-> attempt_entry(idx, attempts[idx])]]

----------------------------------------------------------------------------
(* agents.py: the rule-based Creator.  The emoji of the templates and of    *)
(* _apply_feedback are all written with the one emoji character that a     *)
(* string of this module can hold.                                         *)

\* Creator.templates, formatted with product and audience
Templates(product, audience) ==
    << product \o ": power up, " \o audience \o "! ⚡",
       "Boost with " \o product \o " for " \o audience \o " ⚡",
       audience \o ", grab " \o product \o " and win! ⚡",
       "Stay sharp with " \o product \o ", " \o audience \o "! ⚡" >>

\* words[:15]
first_words(words, n) == SubSeq(words, 1, IF Len(words) < n THEN Len(words) ELSE n)

\* Creator._apply_feedback
apply_feedback(product, caption, feedback) ==
    LET lowered == lower(feedback)
        c1 == IF str_in("emoji", lowered) /\ ~contains_emoji(caption)
              THEN caption \o " ⚡"
              ELSE caption
        c2 == IF str_in("too long", lowered) \/ str_in("under", lowered)
              THEN join(" ", first_words(split(c1), 15))
              ELSE c1
        c3 == IF str_in("mention the product", lowered) /\ ~str_in(lower(product), lower(c2))
              THEN product \o " - " \o strip(c2)
              ELSE c2
    IN  join(" ", split(c3))

\* Creator.propose, pick being the index random.choice draws; attempts is
\* self.attempts, feedback an Optional[str]
Creator_propose(attempts, product, audience, feedback, pick) ==
    IF feedback = None \/ attempts = <<>>
    THEN Templates(product, audience)[pick]
    ELSE apply_feedback(product, attempts[Len(attempts)].caption, feedback[1])

----------------------------------------------------------------------------
(* agents.py: the built-in critics *)

\* Critic.blocklist
Blocklist == {"kill", "violence", "hate"}

\* Critic.evaluate: the four rule checks, each <<>> or its message
emoji_rule(caption) ==
    IF ~contains_emoji(caption) THEN <<"Must contain an emoji.">> ELSE <<>>

length_rule(caption, max_words) ==
    LET word_count == Len(split(caption))
    IN  IF word_count > max_words
        THEN << "Too long (" \o ToString(word_count) \o " words). Keep under "
                \o ToString(max_words) \o "." >>
        ELSE <<>>

product_rule(caption, product) ==
    IF ~str_in(lower(product), lower(caption))
    THEN <<"Please mention the product by name.">>
    ELSE <<>>

blocklist_rule(caption) ==
    IF \E term \in Blocklist : str_in(term, lower(caption))
    THEN <<"Contains blocked terms; rewrite for brand safety.">>
    ELSE <<>>

\* a critic that stops at the first failed rule
rules_failed_first_only(caption, product, max_words) ==
    LET all == emoji_rule(caption) \o length_rule(caption, max_words)
               \o product_rule(caption, product) \o blocklist_rule(caption)
    IN  IF all = <<>> THEN <<>> ELSE <<all[1]>>

\* Critic.evaluate: rules_failed after the four checks
rules_failed(caption, product, max_words) ==
    emoji_rule(caption) \o length_rule(caption, max_words)
        \o product_rule(caption, product) \o blocklist_rule(caption)

\* Critic.evaluate
Critic_evaluate(product, max_words, caption) ==
    LET failed == rules_failed(caption, product, max_words)
    IN  IF failed # <<>>
        THEN Evaluation(FALSE, join(" ", failed), [status |-> "rejected"])
        ELSE Evaluation(TRUE, "Approved",
                        [status |-> "approved",
                         length |-> ToString(Len(caption)),
                         word_count |-> ToString(Len(split(caption))),
                         brand_safety_check |-> "passed"])

\* LLMCritic.evaluate: the approval test on the reply's first line
llm_approved(text) ==
    LET line == lower(first_line(strip(text)))
    IN  str_in("approved", line) /\ ~str_in("rejected", line)

\* an LLM critic whose status follows the word "approved" alone
llm_status_word_only(text, approved) ==
    IF str_in("approved", lower(first_line(strip(text)))) THEN "approved" ELSE "rejected"

\* LLMCritic.evaluate: status follows the approved flag
llm_status(text, approved) ==
    IF approved THEN "approved" ELSE "rejected"

\* LLMCritic.evaluate, reply being the stripped content the chat model returned
LLMCritic_evaluate(caption, reply) ==
    LET text == strip(reply)
        approved == llm_approved(text)
        rejection == strip(replace(text, "REJECTED:", ""))
    IN  Evaluation(approved,
                   IF approved THEN "Approved"
                   ELSE IF rejection # "" THEN rejection ELSE "Rejected",
                   [status |-> llm_status(text, approved),
                    length |-> ToString(Len(caption)),
                    word_count |-> ToString(Len(split(caption))),
                    brand_safety_check |-> IF approved THEN "passed" ELSE "failed"])

\* replies a chat model may give the LLM critic
LLMReplies ==
    { "APPROVED",
      "REJECTED: Must contain an emoji.",
      "Not approved. REJECTED: too long",
      "REJECTED:" }

----------------------------------------------------------------------------
(* Graph nodes as functions of the state and of what the capability returned *)

\* a creator node that forgets to store the proposed caption
creator_node_drops_caption(s, caption) == s

\* _creator_node.node, caption being the value creator.propose returned
creator_node(s, caption) ==
    IF s.exhausted
    THEN s
    ELSE [s EXCEPT !.caption = caption]

\* a history that records the verdict's feedback in place of the caption
record_attempt_wrong_field(s, evaluation) ==
    Append(s.attempts, Attempt(evaluation.feedback, evaluation))

\* a history that keeps only the latest attempt
record_attempt_overwrites(s, evaluation) ==
    <<Attempt(s.caption, evaluation)>>

\* _critic_node.node: the attempts list with this caption and evaluation appended
record_attempt(s, evaluation) ==
    Append(s.attempts, Attempt(s.caption, evaluation))

\* a budget check that does not look at the verdict
would_exhaust_ignores_verdict(attempts, evaluation, maxAttempts) ==
    Len(attempts) >= maxAttempts

\* a budget check that is strict: one attempt too many
would_exhaust_strict(attempts, evaluation, maxAttempts) ==
    (Len(attempts) > maxAttempts) /\ ~evaluation.approved

\* a budget check that fires only when the count hits the budget exactly
would_exhaust_exact(attempts, evaluation, maxAttempts) ==
    (Len(attempts) = maxAttempts) /\ ~evaluation.approved

\* _critic_node.node: the exhausted flag computed after the append
would_exhaust(attempts, evaluation, maxAttempts) ==
    (Len(attempts) >= maxAttempts) /\ ~evaluation.approved

\* an exhaustion branch that leaves approved as the incoming state has it
exhausted_state_keeps_approved(s, evaluation, attempts, maxAttempts) ==
    [s EXCEPT
       !.feedback = Some(ExhaustedFeedback(maxAttempts, evaluation.feedback)),
       !.attempts = attempts,
       !.metadata = DictMerge(evaluation.metadata,
                              [status |-> "rejected", exhausted |-> "true"]),
       !.exhausted = TRUE]

\* _critic_node.node: the state returned when the budget is exhausted
exhausted_state(s, evaluation, attempts, maxAttempts) ==
    [s EXCEPT
       !.feedback = Some(ExhaustedFeedback(maxAttempts, evaluation.feedback)),
       !.approved = FALSE,
       !.attempts = attempts,
       !.metadata = DictMerge(evaluation.metadata,
                              [status |-> "rejected", exhausted |-> "true"]),
       !.exhausted = TRUE]

\* a non-exhausted branch that leaves feedback as the incoming state has it
evaluated_state_stale_feedback(s, evaluation, attempts) ==
    [s EXCEPT
       !.approved = evaluation.approved,
       !.attempts = attempts,
       !.metadata = evaluation.metadata,
       !.exhausted = FALSE]

\* _critic_node.node: the state returned otherwise
evaluated_state(s, evaluation, attempts) ==
    [s EXCEPT
       !.feedback = Some(evaluation.feedback),
       !.approved = evaluation.approved,
       !.attempts = attempts,
       !.metadata = evaluation.metadata,
       !.exhausted = FALSE]

\* _critic_node.node, evaluation being the value critic.evaluate returned
critic_node(s, evaluation, maxAttempts) ==
    IF s.exhausted
    THEN s
    ELSE LET attempts == record_attempt(s, evaluation)
             exhausted == would_exhaust(attempts, evaluation, maxAttempts)
         IN  IF exhausted
             THEN exhausted_state(s, evaluation, attempts, maxAttempts)
             ELSE evaluated_state(s, evaluation, attempts)

\* a critic node that treats exhaustion as an error
critic_node_raises_on_exhaustion(s, evaluation, maxAttempts) ==
    ~s.exhausted /\ would_exhaust(record_attempt(s, evaluation), evaluation, maxAttempts)

\* _critic_node.node has no raise statement: exhaustion returns a state ("DO NOT raise")
critic_node_raises(s, evaluation, maxAttempts) ==
    FALSE

\* a node wrapper that swallows the exception and runs the node again
capability_fault_edge_retries(node) == node

\* _creator_node / _critic_node call propose / evaluate outside any try block:
\* an exception leaves the node and the graph
capability_fault_edge(node) == "raised"

\* a router that ends the run on exhaustion only
route_ignores_approved(s) ==
    IF s.exhausted THEN "done" ELSE "retry"

\* a router that forgets the exhausted flag
route_ignores_exhausted(s) ==
    IF s.approved THEN "done" ELSE "retry"

\* _route
route(s) ==
    IF s.exhausted
    THEN "done"
    ELSE IF s.approved THEN "done" ELSE "retry"

\* the conditional edge of build_graph: {"done": END, "retry": "creator"}
critic_edge(r) == IF r = "done" THEN "END" ELSE "creator"

----------------------------------------------------------------------------
(* Initial state: run_workflow's initial_state, for any budget *)

initial_state ==
    [product |-> "Prod", audience |-> "QA", caption |-> "", feedback |-> None,
     approved |-> FALSE, attempts |-> <<>>, metadata |-> <<>>, exhausted |-> FALSE]

\* a graph built by build_graph around a duck-typed creator and critic, as the tests do
GraphConfig ==
    [provider |-> "ollama", model |-> "llama3:8b", creator_mode |-> "opaque",
     critic_mode |-> "opaque", max_words |-> 15]

Init ==
    /\ max_attempts \in Budgets
    /\ state = initial_state
    /\ pc = "creator"
    /\ proposeLog = <<>>
    /\ evaluateLog = <<>>
    /\ config = GraphConfig
    /\ fault = "none"
    /\ output = <<>>
    /\ creator_attempts = <<>>

----------------------------------------------------------------------------
(* Node invocations: the capability call and the state the node returns *)

\* the values critic.evaluate may return for a caption, by the kind of critic
evaluate_results(caption) ==
    IF config.critic_mode = "llm"
    THEN { LLMCritic_evaluate(caption, reply) : reply \in LLMReplies }
    ELSE IF config.critic_mode = "heuristic"
    THEN { Critic_evaluate(state.product, config.max_words, caption) }
    ELSE Evaluations

\* the values creator.propose may return for a feedback, by the kind of creator
propose_results(feedback) ==
    IF config.creator_mode = "template"
    THEN { Creator_propose(creator_attempts, state.product, state.audience, feedback, t) :
             t \in 1..Len(Templates(state.product, state.audience)) }
    ELSE Captions

\* the creator node run on the current state
CreatorNode ==
    /\ IF state.exhausted
       THEN /\ state' = creator_node(state, state.caption)
            /\ UNCHANGED <<proposeLog, evaluateLog>>
       ELSE \E c \in propose_results(state.feedback) :
            /\ proposeLog' = Append(proposeLog, [feedback |-> state.feedback, caption |-> c])
            /\ state' = creator_node(state, c)
            /\ UNCHANGED evaluateLog
    /\ UNCHANGED <<max_attempts, config, creator_attempts, fault, output>>

\* the critic node run on the current state
CriticNode ==
    /\ IF state.exhausted
       THEN /\ state' = critic_node(state, CHOOSE ev \in Evaluations : TRUE, max_attempts)
            /\ UNCHANGED <<proposeLog, evaluateLog, fault>>
       ELSE \E ev \in evaluate_results(state.caption) :
            /\ evaluateLog' = Append(evaluateLog, [caption |-> state.caption, evaluation |-> ev])
            /\ IF critic_node_raises(state, ev, max_attempts)
               THEN /\ fault' = "exhausted"
                    /\ UNCHANGED state
               ELSE /\ state' = critic_node(state, ev, max_attempts)
                    /\ UNCHANGED fault
            /\ UNCHANGED proposeLog
    /\ UNCHANGED <<max_attempts, config, creator_attempts, output>>

----------------------------------------------------------------------------
(* The compiled graph: __start__ -> creator -> critic -> {END | creator} *)

GraphCreator ==
    /\ pc = "creator"
    /\ CreatorNode
    /\ pc' = "critic"

GraphCritic ==
    /\ pc = "critic"
    /\ CriticNode
    /\ pc' = IF fault' = "none" THEN critic_edge(route(state')) ELSE "raised"

\* app.invoke returns the final state to run_workflow, which validates and returns it
Return ==
    /\ pc = "END"
    /\ pc' = "returned"
    /\ UNCHANGED <<state, max_attempts, proposeLog, evaluateLog, config, creator_attempts, fault, output>>

Next == GraphCreator \/ GraphCritic \/ Return

Spec == Init /\ [][Next]_vars

\* every propose and evaluate call returns, and the graph engine keeps stepping
FairSpec == Spec /\ WF_vars(Next)

----------------------------------------------------------------------------
(* The node functions called directly, in any order, on whatever state the  *)
(* previous call returned (as the unit test calls _critic_node)             *)

DirectCreator ==
    /\ Len(proposeLog) < MaxCalls
    /\ CreatorNode
    /\ UNCHANGED pc

DirectCritic ==
    /\ Len(evaluateLog) < MaxCalls
    /\ CriticNode
    /\ UNCHANGED pc

DirectNext == DirectCreator \/ DirectCritic

DirectSpec == Init /\ [][DirectNext]_vars

----------------------------------------------------------------------------
(* run_workflow and main: the clients are built, the graph is run on the    *)
(* built-in critic chosen by critic_mode, and main reports the final state; *)
(* a propose or evaluate call may raise                                     *)

\* a guard that tests the wrong provider
build_llm_raises_wrong_provider(cfg) ==
    cfg.provider = "ollama" /\ str_in(":", cfg.model)

\* _build_llm: the guard that raises ValueError
build_llm_raises(cfg) ==
    cfg.provider = "openai" /\ str_in(":", cfg.model)

\* argument values of run_workflow
RunConfigs ==
    [provider : {"ollama", "openai"},
     model : {"llama3:8b", "gpt-4o-mini"},
     creator_mode : {"template", "llm"},
     critic_mode : {"heuristic", "llm"},
     max_words : {15}]

RunInit ==
    /\ max_attempts \in Budgets
    /\ state = initial_state
    /\ pc = "build_llm"
    /\ proposeLog = <<>>
    /\ evaluateLog = <<>>
    /\ config \in RunConfigs
    /\ fault = "none"
    /\ output = <<>>
    /\ creator_attempts = <<>>

\* run_workflow builds creator_llm and critic_llm before anything else
BuildLLM ==
    /\ pc = "build_llm"
    /\ IF build_llm_raises(config)
       THEN /\ fault' = "config"
            /\ pc' = "raised"
       ELSE /\ pc' = "creator"
            /\ UNCHANGED fault
    /\ UNCHANGED <<state, max_attempts, proposeLog, evaluateLog, config, creator_attempts, output>>

\* creator.propose raises inside the creator node
ProposeRaises ==
    /\ pc = "creator"
    /\ ~state.exhausted
    /\ fault = "none"
    /\ fault' = "propose"
    /\ pc' = capability_fault_edge("creator")
    /\ UNCHANGED <<state, max_attempts, proposeLog, evaluateLog, config, creator_attempts, output>>

\* critic.evaluate raises inside the critic node
EvaluateRaises ==
    /\ pc = "critic"
    /\ ~state.exhausted
    /\ fault = "none"
    /\ fault' = "evaluate"
    /\ pc' = capability_fault_edge("critic")
    /\ UNCHANGED <<state, max_attempts, proposeLog, evaluateLog, config, creator_attempts, output>>

\* the exception leaves app.invoke and run_workflow: no final state is returned
Propagate ==
    /\ pc = "raised"
    /\ pc' = "aborted"
    /\ UNCHANGED <<state, max_attempts, proposeLog, evaluateLog, config, creator_attempts, fault, output>>

\* main: the attempt log and the final payload built from the returned state
Report ==
    /\ pc = "returned"
    /\ output' = [attempts_log |-> attempts_as_adcp(state.attempts),
                  final_payload |-> build_adcp_payload(state.product, state.audience,
                                                       state.caption, state.metadata)]
    /\ pc' = "reported"
    /\ UNCHANGED <<state, max_attempts, proposeLog, evaluateLog, config, creator_attempts, fault>>

RunNext ==
    \/ BuildLLM
    \/ GraphCreator
    \/ GraphCritic
    \/ Return
    \/ ProposeRaises
    \/ EvaluateRaises
    \/ Propagate
    \/ Report

RunSpec == RunInit /\ [][RunNext]_vars

----------------------------------------------------------------------------
(* Critic.evaluate called on its own, as test_critic_and_payload.py does,   *)
(* for captions put together from a few words and several max_words values *)

\* words the captions are built from: product name in two spellings, an emoji,
\* a blocked term inside a longer word, a neutral word
CaptionWords == {"prod", "Prod⚡", "⚡", "whatever", "rocks"}

RECURSIVE WordSeqs(_)
WordSeqs(n) ==
    IF n = 0
    THEN {<<>>}
    ELSE {<<>>} \cup { <<w>> \o t : w \in CaptionWords, t \in WordSeqs(n - 1) }

CriticCaptions ==
    { join(" ", ws) : ws \in WordSeqs(MaxCaptionWords) } \cup {" Prod  rocks ⚡ ", "I hate\tit"}

\* Critic(product, max_words): the test's 10, the default 15, and small limits
CriticMaxWords == {1, 2, 10, 15}

CriticInit ==
    /\ max_attempts = 0
    /\ \E c \in CriticCaptions : state = [initial_state EXCEPT !.caption = c]
    /\ pc = "evaluate"
    /\ proposeLog = <<>>
    /\ evaluateLog = <<>>
    /\ \E mw \in CriticMaxWords :
          config = [GraphConfig EXCEPT !.critic_mode = "heuristic", !.max_words = mw]
    /\ fault = "none"
    /\ output = <<>>
    /\ creator_attempts = <<>>

CriticEvaluate ==
    /\ pc = "evaluate"
    /\ output' = Critic_evaluate(state.product, config.max_words, state.caption)
    /\ pc' = "evaluated"
    /\ UNCHANGED <<state, max_attempts, proposeLog, evaluateLog, config, creator_attempts, fault>>

CriticNext == CriticEvaluate

CriticSpec == CriticInit /\ [][CriticNext]_vars

----------------------------------------------------------------------------
(* build_adcp_payload called on its own, as test_critic_and_payload.py does *)

\* attribute mappings handed to the builder: verdict metadata, the metadata of
\* an exhausted state, the test's mapping, and the initial empty mapping
PayloadMetas ==
    { ev.metadata : ev \in Evaluations }
    \cup { DictMerge(ev.metadata, [status |-> "rejected", exhausted |-> "true"]) :
             ev \in RejectedEvaluations }
    \cup { [length |-> "12", word_count |-> "3", brand_safety_check |-> "passed"],
           <<>> }

PayloadProducts == {"Prod", "Neon Energy Drink"}

PayloadInit ==
    /\ max_attempts = 0
    /\ \E c \in CriticCaptions, m \in PayloadMetas, p \in PayloadProducts :
          state = [initial_state EXCEPT !.caption = c, !.metadata = m, !.product = p]
    /\ pc = "build_payload"
    /\ proposeLog = <<>>
    /\ evaluateLog = <<>>
    /\ config = GraphConfig
    /\ fault = "none"
    /\ output = <<>>
    /\ creator_attempts = <<>>

BuildPayload ==
    /\ pc = "build_payload"
    /\ output' = build_adcp_payload(state.product, state.audience,
                                    state.caption, state.metadata)
    /\ pc' = "built"
    /\ UNCHANGED <<state, max_attempts, proposeLog, evaluateLog, config, creator_attempts, fault>>

PayloadNext == BuildPayload

PayloadSpec == PayloadInit /\ [][PayloadNext]_vars

----------------------------------------------------------------------------
(* Helpers for the properties *)

\* a and b joined by one space, either of which may be missing
Spaced(a, b) == IF a = "" THEN b ELSE IF b = "" THEN a ELSE a \o " " \o b

\* sub occurs in the string str
Contains(str, sub) ==
    \E i \in 1..(Len(str) - Len(sub) + 1) : SubSeq(str, i, i + Len(sub) - 1) = sub

Terminal == pc \in {"END", "returned"}

----------------------------------------------------------------------------
C2_BudgetBound ==
    max_attempts >= 1 =>
        /\ Len(evaluateLog) <= max_attempts
        /\ Len(proposeLog) <= max_attempts
        /\ Len(state.attempts) <= max_attempts

C2_Witness ==
    /\ max_attempts >= 2
    /\ pc = "END"
    /\ state.exhausted
    /\ Len(evaluateLog) = max_attempts

(* C3: after any number of creator and critic node steps, approved and     *)
(* exhausted are never both true                                           *)
C3_FlagsExclusive ==
    ~(state.approved /\ state.exhausted)

\* exhausted by a node step taken on a state that had been approved
C3_Witness ==
    /\ state.exhausted
    /\ \E i \in 1..Len(state.attempts) : state.attempts[i].evaluation.approved

(* C4: with max_attempts = 0 a run makes exactly one propose and one       *)
(* evaluate call and never retries; a rejected verdict ends it exhausted,  *)
(* not approved, with feedback containing "Attempt budget exhausted"       *)
C4_ZeroBudget ==
    max_attempts = 0 =>
        /\ Len(proposeLog) <= 1
        /\ Len(evaluateLog) <= 1
        /\ Terminal =>
              /\ Len(proposeLog) = 1
              /\ Len(evaluateLog) = 1
              /\ ~evaluateLog[1].evaluation.approved =>
                    /\ state.exhausted
                    /\ ~state.approved
                    /\ state.feedback # None
                    /\ Contains(state.feedback[1], "Attempt budget exhausted")

C4_Witness ==
    /\ max_attempts = 0
    /\ pc = "END"
    /\ ~evaluateLog[1].evaluation.approved
    /\ state.exhausted

(* C5: the creator node and the critic node invoked on an already-terminal *)
(* state (approved or exhausted) change no field of the state and call     *)
(* neither propose nor evaluate                                            *)
C5_TerminalNoOp ==
    [][(state.approved \/ state.exhausted) =>
          UNCHANGED <<state, proposeLog, evaluateLog>>]_vars

(* C6: if the k-th candidate is the first one the evaluator accepts and   *)
(* k <= max_attempts, the run has ended approved, not exhausted, with k    *)
(* attempts, the k-th candidate as caption and no later candidate          *)
C6_FirstAcceptEnds ==
    \A k \in 1..Len(evaluateLog) :
        ( /\ evaluateLog[k].evaluation.approved
          /\ \A j \in 1..(k - 1) : ~evaluateLog[j].evaluation.approved
          /\ k <= max_attempts )
        => /\ Terminal
           /\ state.approved
           /\ ~state.exhausted
           /\ Len(state.attempts) = k
           /\ Len(proposeLog) = k
           /\ state.caption = proposeLog[k].caption

\* the routing test: rejected, then accepted, within a budget of 3
C6_Witness ==
    /\ max_attempts = 3
    /\ Terminal
    /\ state.approved
    /\ Len(state.attempts) = 2

(* C7: attempts is append-only: a creator step leaves it alone, a critic   *)
(* step on a non-terminal state appends exactly one Attempt, the old list  *)
(* stays a prefix, and len(attempts) equals the number of iterations       *)
C7_AppendOnly ==
    [][ /\ Len(state.attempts') >= Len(state.attempts)
        /\ SubSeq(state.attempts', 1, Len(state.attempts)) = state.attempts
        /\ (pc = "creator" /\ pc' = "critic") => state.attempts' = state.attempts
        /\ (pc = "critic" /\ pc' # "critic") =>
               /\ Len(state.attempts') = Len(state.attempts) + 1
               /\ Len(state.attempts') = Len(evaluateLog')
               /\ Len(state.attempts') = Len(proposeLog')
      ]_vars

C7_Witness ==
    /\ pc = "critic"
    /\ Len(state.attempts) = 2
    /\ Len(proposeLog) = 3

(* C8: the first propose call of a run gets None and no other call does;   *)
(* the i-th call, i > 1, gets the feedback string of verdict i-1, the      *)
(* verdict just before it, and that verdict was a rejection                *)
C8_ProposeFeedback ==
    /\ Len(evaluateLog) \in {Len(proposeLog) - 1, Len(proposeLog)}
    /\ \A i \in 1..Len(proposeLog) :
          IF i = 1
          THEN proposeLog[i].feedback = None
          ELSE /\ proposeLog[i].feedback # None
               /\ ~evaluateLog[i - 1].evaluation.approved
               /\ proposeLog[i].feedback = <<evaluateLog[i - 1].evaluation.feedback>>

C8_Witness ==
    /\ Len(proposeLog) = 3
    /\ evaluateLog[1].evaluation.feedback # evaluateLog[2].evaluation.feedback

(* C9: a critic step whose verdict is a rejection and brings len(attempts) *)
(* to max_attempts or more returns exhausted, not approved, the exhaustion *)
(* message with the budget and the verdict's feedback, the verdict's       *)
(* metadata overridden with status=rejected and exhausted=true, and the    *)
(* rejected attempt appended                                               *)
C9_ExhaustionResult ==
    [][ (Len(evaluateLog') = Len(evaluateLog) + 1) =>
          LET ev == evaluateLog'[Len(evaluateLog')].evaluation
          IN  (Len(state.attempts) + 1 >= max_attempts /\ ~ev.approved) =>
                /\ state.exhausted'
                /\ ~state.approved'
                /\ state.feedback' =
                      << "Attempt budget exhausted after " \o ToString(max_attempts)
                         \o " tries. Last feedback: " \o ev.feedback >>
                /\ DOMAIN state.metadata' = (DOMAIN ev.metadata) \cup {"status", "exhausted"}
                /\ state.metadata'["status"] = "rejected"
                /\ state.metadata'["exhausted"] = "true"
                /\ \A key \in (DOMAIN ev.metadata) \ {"status", "exhausted"} :
                      state.metadata'[key] = ev.metadata[key]
                /\ state.attempts' =
                      Append(state.attempts, [caption |-> state.caption, evaluation |-> ev])
      ]_vars

\* exhausted on a verdict whose own metadata carries status and exhausted keys
C9_Witness ==
    /\ state.exhausted
    /\ max_attempts = 2
    /\ Len(state.attempts) = 2
    /\ "exhausted" \in DOMAIN state.attempts[2].evaluation.metadata

(* C10: in a run of the compiled graph, once approved or exhausted is true *)
(* no further propose or evaluate call is made and both flags keep their   *)
(* values                                                                  *)
C10_TerminalFlagsStick ==
    [][ (state.approved \/ state.exhausted) =>
          /\ proposeLog' = proposeLog
          /\ evaluateLog' = evaluateLog
          /\ state.approved' = state.approved
          /\ state.exhausted' = state.exhausted
      ]_vars

\* the run went on (to its return) after a flag was set
C10_Witness ==
    /\ pc = "returned"
    /\ state.approved \/ state.exhausted
    /\ Len(proposeLog) >= 2

(* C11: a propose or evaluate call that raises is neither caught nor       *)
(* retried: the step that raises changes neither the state nor the record  *)
(* of calls (no Attempt, no rejection), the run aborts, and nothing is     *)
(* called afterwards                                                       *)
C11_FaultPropagates ==
    [][ /\ (fault = "none" /\ fault' \in {"propose", "evaluate"}) =>
              /\ state' = state
              /\ proposeLog' = proposeLog
              /\ evaluateLog' = evaluateLog
              /\ pc' = "raised"
        /\ (fault \in {"propose", "evaluate"}) =>
              /\ state' = state
              /\ proposeLog' = proposeLog
              /\ evaluateLog' = evaluateLog
              /\ fault' = fault
              /\ pc' = "aborted"
      ]_vars

\* evaluate raised on the second candidate, after one recorded rejection
C11_Witness ==
    /\ pc = "aborted"
    /\ fault = "evaluate"
    /\ Len(proposeLog) = 2
    /\ Len(state.attempts) = 1
    /\ ~state.exhausted

C13_StatusAgrees ==
    /\ \A i \in 1..Len(evaluateLog) :
          LET ev == evaluateLog[i].evaluation
          IN  /\ "status" \in DOMAIN ev.metadata
              /\ (ev.metadata["status"] = "approved") <=> ev.approved
    /\ Len(evaluateLog) >= 1 =>
          /\ "status" \in DOMAIN state.metadata
          /\ (state.metadata["status"] = "approved") <=> state.approved

\* an LLM critic run that ended exhausted after an earlier rejection
C13_Witness ==
    /\ config.critic_mode = "llm"
    /\ pc = "returned"
    /\ state.exhausted
    /\ Len(evaluateLog) >= 2
    /\ state.metadata["status"] = "rejected"

(* C14: the rule-based Critic approves a caption iff it has an emoji, has  *)
(* at most max_words words, contains the product name in any case and has  *)
(* no blocklisted term; otherwise it rejects with the messages of all the  *)
(* failed rules, space-joined, in the order emoji, length, product name,   *)
(* blocklist                                                               *)
C14_RuleAggregation ==
    pc = "evaluated" =>
        LET c == state.caption
            wc == Len(split(c))
            noEmoji == ~contains_emoji(c)
            tooLong == wc > config.max_words
            noProduct == ~str_in(lower(state.product), lower(c))
            blocked == \E term \in Blocklist : str_in(term, lower(c))
            m1 == IF noEmoji THEN "Must contain an emoji." ELSE ""
            m2 == IF tooLong
                  THEN "Too long (" \o ToString(wc) \o " words). Keep under "
                       \o ToString(config.max_words) \o "."
                  ELSE ""
            m3 == IF noProduct THEN "Please mention the product by name." ELSE ""
            m4 == IF blocked
                  THEN "Contains blocked terms; rewrite for brand safety."
                  ELSE ""
        IN  /\ output.approved <=> ~(noEmoji \/ tooLong \/ noProduct \/ blocked)
            /\ ~output.approved =>
                  output.feedback = Spaced(Spaced(Spaced(m1, m2), m3), m4)

\* a caption that fails all four rules at once
C14_Witness ==
    /\ pc = "evaluated"
    /\ ~output.approved
    /\ Contains(output.feedback, "emoji")
    /\ Contains(output.feedback, "Too long")
    /\ Contains(output.feedback, "mention the product")
    /\ Contains(output.feedback, "blocked terms")

(* C15: the attempt log has one entry per attempt, in order; entry i has   *)
(* sequence i, type "text_ad", the i-th candidate as content and the i-th  *)
(* verdict's status and feedback; on an exhausted run the last entry shows *)
(* the recorded verdict, not the exhaustion message                        *)
C15_AttemptLog ==
    pc = "reported" =>
        LET log == output.attempts_log.attempts
        IN  /\ Len(log) = Len(state.attempts)
            /\ Len(log) = Len(evaluateLog)
            /\ \A i \in 1..Len(log) :
                  /\ log[i].sequence = i
                  /\ log[i].type = "text_ad"
                  /\ log[i].content = proposeLog[i].caption
                  /\ log[i].status = evaluateLog[i].evaluation.metadata["status"]
                  /\ log[i].feedback = evaluateLog[i].evaluation.feedback
            /\ state.exhausted =>
                  /\ log[Len(log)].feedback # state.feedback[1]
                  /\ ~Contains(log[Len(log)].feedback, "Attempt budget exhausted")

C15_Witness ==
    /\ pc = "reported"
    /\ state.exhausted
    /\ Len(output.attempts_log.attempts) = 3

(* C16: the payload carries the given product, audience and caption (one   *)
(* creative asset); metadata length and word_count are the attributes'     *)
(* values when present, else the caption's character count and its number  *)
(* of whitespace-separated words; brand_safety_check is the attribute or   *)
(* "unknown"; the same for the attributes of an exhausted run              *)
C16_PayloadShape ==
    pc = "built" =>
        LET meta == state.metadata
            c == state.caption
        IN  /\ output.payload.product = state.product
            /\ output.payload.target_audience = state.audience
            /\ Len(output.payload.creative_assets) = 1
            /\ output.payload.creative_assets[1].content = c
            /\ IF "length" \in DOMAIN meta
               THEN ToString(output.metadata.length) = meta["length"]
               ELSE output.metadata.length = Len(c)
            /\ IF "word_count" \in DOMAIN meta
               THEN ToString(output.metadata.word_count) = meta["word_count"]
               ELSE output.metadata.word_count = Len(split(c))
            /\ IF "brand_safety_check" \in DOMAIN meta
               THEN output.metadata.brand_safety_check = meta["brand_safety_check"]
               ELSE output.metadata.brand_safety_check = "unknown"

\* attributes of an exhausted run with a length that is not the caption's,
\* no word count and no brand safety field
C16_Witness ==
    /\ pc = "built"
    /\ "exhausted" \in DOMAIN state.metadata
    /\ "length" \in DOMAIN state.metadata
    /\ "word_count" \notin DOMAIN state.metadata
    /\ output.metadata.length # Len(state.caption)
    /\ output.metadata.word_count = 3
    /\ output.metadata.brand_safety_check = "unknown"

(* C17: with provider "openai" and a model identifier containing ":",      *)
(* run_workflow fails while building the clients: the run never gets past  *)
(* that step, no propose or evaluate call is made, no state is returned or *)
(* reported, and the failure is the configuration fault                    *)
C17_ConfigFaultEager ==
    (config.provider = "openai" /\ Contains(config.model, ":")) =>
        /\ pc \in {"build_llm", "raised", "aborted"}
        /\ pc # "build_llm" => fault = "config"
        /\ proposeLog = <<>>
        /\ evaluateLog = <<>>
        /\ state = initial_state
        /\ output = <<>>

C17_Witness ==
    /\ config.provider = "openai"
    /\ config.model = "llama3:8b"
    /\ pc = "aborted"
    /\ fault = "config"

(* C18: an accepted verdict that brings len(attempts) to max_attempts or   *)
(* beyond yields approved=true, exhausted=false, the verdict's own feedback *)
(* and metadata with no exhaustion message or marker, and ends the run     *)
C18_AcceptanceWins ==
    [][ (Len(evaluateLog') = Len(evaluateLog) + 1) =>
          LET ev == evaluateLog'[Len(evaluateLog')].evaluation
          IN  (Len(state.attempts) + 1 >= max_attempts /\ ev.approved) =>
                /\ state.approved'
                /\ ~state.exhausted'
                /\ state.feedback' = <<ev.feedback>>
                /\ ~Contains(state.feedback'[1], "Attempt budget exhausted")
                /\ state.metadata' = ev.metadata
                /\ "exhausted" \notin DOMAIN state.metadata'
                /\ pc' = "END"
      ]_vars

\* accepted on exactly the last budgeted attempt, after a rejection
C18_Witness ==
    /\ max_attempts = 2
    /\ Len(state.attempts) = 2
    /\ state.approved
    /\ pc = "END"

(* C19: a critic step that does not exhaust the budget copies the verdict's *)
(* approved, feedback and metadata into the state, leaves exhausted false  *)
(* and product, audience and caption unchanged, and routes to END iff      *)
(* approved, else back to the creator                                      *)
C19_EvaluatedStep ==
    [][ (Len(evaluateLog') = Len(evaluateLog) + 1) =>
          LET ev == evaluateLog'[Len(evaluateLog')].evaluation
          IN  ~(Len(state.attempts) + 1 >= max_attempts /\ ~ev.approved) =>
                /\ state.approved' = ev.approved
                /\ state.feedback' = <<ev.feedback>>
                /\ state.metadata' = ev.metadata
                /\ state.exhausted' = FALSE
                /\ state.product' = state.product
                /\ state.audience' = state.audience
                /\ state.caption' = state.caption
                /\ pc' = IF ev.approved THEN "END" ELSE "creator"
      ]_vars

\* a rejection within the budget: back at the creator with the verdict's feedback
C19_Witness ==
    /\ pc = "creator"
    /\ Len(state.attempts) = 2
    /\ ~state.approved
    /\ ~state.exhausted
    /\ state.feedback = <<"Needs keyword">>

(* C20: propose and evaluate calls alternate, propose first: before a      *)
(* critic step there is one more propose than evaluate call, otherwise as  *)
(* many; the i-th evaluate call gets the caption the i-th propose returned; *)
(* at termination both counts equal len(attempts)                          *)
C20_Alternation ==
    /\ pc = "critic" => Len(proposeLog) = Len(evaluateLog) + 1
    /\ pc # "critic" => Len(proposeLog) = Len(evaluateLog)
    /\ \A i \in 1..Len(evaluateLog) : evaluateLog[i].caption = proposeLog[i].caption
    /\ Terminal => /\ Len(proposeLog) = Len(state.attempts)
                   /\ Len(evaluateLog) = Len(state.attempts)
                   /\ Len(state.attempts) >= 1

C20_Witness ==
    /\ Terminal
    /\ Len(proposeLog) = 3
    /\ proposeLog[1].caption # proposeLog[2].caption
    /\ proposeLog[2].caption # proposeLog[3].caption

(* C21: the rule-based Creator, called with feedback on the second or a    *)
(* later iteration of a run, returns its previous caption adjusted by      *)
(* _apply_feedback for that feedback, not a freshly picked template        *)
C21_CreatorUsesFeedback ==
    config.creator_mode = "template" =>
        \A i \in 2..Len(proposeLog) :
            proposeLog[i].feedback # None =>
                proposeLog[i].caption =
                    apply_feedback(state.product, proposeLog[i - 1].caption,
                                   proposeLog[i].feedback[1])

(* C22 as stated: in every reachable state after at least one critic step, *)
(* the state's caption is the caption of the last Attempt                  *)
C22_CaptionIsLastAttempt ==
    Len(state.attempts) >= 1 =>
        state.caption = state.attempts[Len(state.attempts)].caption

(* C22 amended: in every reachable state of a run, after at least one    *)
(* critic step, in which every proposed candidate has been evaluated, so   *)
(* in particular at termination, the state's caption is the caption of the *)
(* last Attempt, the candidate the last verdict was issued for             *)
C22_CaptionIsLastAttemptOnceEvaluated ==
    (Len(state.attempts) >= 1 /\ Len(proposeLog) = Len(evaluateLog)) =>
        /\ state.caption = state.attempts[Len(state.attempts)].caption
        /\ state.caption = evaluateLog[Len(evaluateLog)].caption
        /\ state.caption = proposeLog[Len(proposeLog)].caption

\* a finished run whose last candidate differs from the one before
C22_Witness ==
    /\ Terminal
    /\ Len(state.attempts) = 2
    /\ state.attempts[1].caption # state.attempts[2].caption

(* C23: a run that ends exhausted has exactly max(max_attempts, 1)         *)
(* attempts, so exactly 1 for a budget of 0 or less, and every recorded    *)
(* verdict is a rejection                                                  *)
C23_ExhaustedLength ==
    (Terminal /\ state.exhausted) =>
        /\ Len(state.attempts) = IF max_attempts >= 1 THEN max_attempts ELSE 1
        /\ \A i \in 1..Len(state.attempts) : ~state.attempts[i].evaluation.approved

\* exhausted after using up a budget of more than one attempt
C23_Witness ==
    /\ Terminal
    /\ state.exhausted
    /\ max_attempts >= 2
    /\ Len(state.attempts) = max_attempts

(* C24: in every reachable state approved is true iff the last recorded    *)
(* Attempt's verdict is accepted; an accepted verdict appears at most once *)
(* in attempts, as the last entry, after rejections only                   *)
C24_ApprovedIsLastVerdict ==
    /\ state.approved <=> ( /\ Len(state.attempts) >= 1
                            /\ state.attempts[Len(state.attempts)].evaluation.approved )
    /\ \A i \in 1..Len(state.attempts) :
          state.attempts[i].evaluation.approved => i = Len(state.attempts)
    /\ Cardinality({ i \in 1..Len(state.attempts) :
                       state.attempts[i].evaluation.approved }) <= 1

\* accepted on the third attempt after two rejections
C24_Witness ==
    /\ state.approved
    /\ Len(state.attempts) = 3
    /\ ~state.attempts[1].evaluation.approved
    /\ ~state.attempts[2].evaluation.approved

====
